---- MODULE Spec2Model ----
(***************************************************************************)
(* MPVDriver (src/pp_mpvdriver.py): the playback driver that wraps one mpv *)
(* session behind a polled state value.                                    *)
(*                                                                         *)
(* One driver instance is modelled together with the two things it talks   *)
(* to: the GLib main loop (the set of armed timeout sources) and the mpv   *)
(* player (pause, volume, position, the time-pos observers).  Every        *)
(* handler of the driver runs to completion on the main loop, so a handler *)
(* is one action.  A handler that raises (an attribute that does not exist *)
(* yet) keeps the assignments it made before the raise.  The observers of  *)
(* time-pos are called by the player; a call is one action as well.        *)
(*                                                                         *)
(* Time is counted in units of 0.06 s, so the 0.12 s of                    *)
(* show_complete_change is 2 units.  None is the empty tuple and a present *)
(* value v is <<v>>.  The value a command returns is an operator of the    *)
(* state it is called in (go_returns, pause_returns, ...).  Fields that    *)
(* are only written to the log (load_position, show_position) and the      *)
(* visibility of the render surface are left out.                          *)
(***************************************************************************)
EXTENDS Integers, Sequences, FiniteSets, TLC

Duration == 2
MaxShow == 1
MaxClose == 2
PollBudget == 2
Epsilon == 2
LoadTimeout == 500

None == <<>>
Some(v) == <<v>>
Val(o) == o[1]

Volumes == {0, 100}
TimerIds == 1..(MaxShow + 2)
FreezeAtStart == {"no", "before-first-frame", "after-first-frame"}
FreezeAtEnd == {"yes", "no"}

\* the mpv options that are looked at, as the pairs (name, value) of the list
\* given to load(): the player takes the first two and rejects the third and
\* the fourth (a name it does not know, a value the option does not take)
MaxOptions == 2
OptionNames == {"mute", "loop-file", "nosuch"}
OptionPairs == {<<"mute", "yes">>, <<"loop-file", "inf">>, <<"nosuch", "1">>,
                <<"mute", "maybe">>}
OptionLists ==
    UNION {[1..n -> OptionPairs] : n \in 0..MaxOptions}

VARIABLES
    freeze_at_start, freeze_at_end, options,
    state, frozen_at_start, frozen_at_end, user_pause,
    quit_load_signal, quit_show_signal,
    show_status_timer, load_status_timer,
    load_complete_signal, show_complete_signal,
    load_timeout, duration,
    player, timers, realize_pending, loaded, nshow, closed,
    pp

config == <<freeze_at_start, freeze_at_end, options>>
flags == <<frozen_at_start, frozen_at_end, user_pause>>
quits == <<quit_load_signal, quit_show_signal>>
loadv == <<load_complete_signal, load_timeout, duration>>
handles == <<show_status_timer, load_status_timer>>
env == <<realize_pending, loaded, nshow, closed>>

\* the fields of the driver, its player and its main loop
driver == <<config, state, flags, quits, loadv, show_complete_signal, handles,
            player, timers, env>>

vars == <<driver, pp>>

(***************************************************************************)
(* The mpv player: python-mpv's MPV object as the driver uses it.          *)
(* load_observers and show_observers count the registered time-pos         *)
(* handlers of each kind; notify_load and notify_show say that a change of *)
(* time-pos has not been delivered to them yet.                            *)
(***************************************************************************)
NoPlayer ==
    [exists |-> FALSE, playing |-> FALSE, time_pos |-> None, pause |-> FALSE,
     volume |-> 100, load_observers |-> 0, show_observers |-> 0,
     notify_load |-> FALSE, notify_show |-> FALSE,
     options |-> [name \in OptionNames |-> None]]

\* player[name] = value raises when the player does not take the option
PlayerTakes(option) == option \in {<<"mute", "yes">>, <<"loop-file", "inf">>}

\* a change of time-pos is queued for every registered observer
Changed(p) ==
    [p EXCEPT !.notify_load = (p.load_observers > 0),
              !.notify_show = (p.show_observers > 0)]

\* player.stop(): playback ends and time-pos becomes unavailable
PlayerStop(p) ==
    IF p.time_pos = None
    THEN [p EXCEPT !.playing = FALSE]
    ELSE Changed([p EXCEPT !.playing = FALSE, !.time_pos = None])

\* player.observe_property('time-pos', handler): mpv sends the current value once
ObserveLoad(p) ==
    [p EXCEPT !.load_observers = @ + 1, !.notify_load = TRUE]

ObserveShow(p) ==
    [p EXCEPT !.show_observers = @ + 1, !.notify_show = TRUE]

\* player.unobserve_property('time-pos', self.load_property_change)
UnobserveLoad(p) ==
    [p EXCEPT !.load_observers = IF @ > 0 THEN @ - 1 ELSE 0,
              !.notify_load = FALSE]

\* player.unobserve_property('time-pos', self.show_complete_change), by each
\* instance of the handler that the player calls
UnobserveShow(p) ==
    [p EXCEPT !.show_observers = 0, !.notify_show = FALSE]

(***************************************************************************)
(* GLib timeout sources.  A source id is only ever compared with a handle  *)
(* the driver holds, so a new source takes the least id that is free.      *)
(***************************************************************************)
FreeId(T) == CHOOSE i \in TimerIds : T[i] = "free" /\ \A j \in 1..(i-1) : T[j] # "free"

timeout_add(T, cb) == [T EXCEPT ![FreeId(T)] = cb]

source_remove(T, h) == IF h = None THEN T ELSE [T EXCEPT ![Val(h)] = "free"]

\* the source that is running its callback is gone when the callback returns None
Fired(T, id) == [T EXCEPT ![id] = "free"]

(***************************************************************************)
(* MPVDriver.__init__                                                      *)
(***************************************************************************)
Init ==
    /\ freeze_at_start \in FreezeAtStart
    /\ freeze_at_end \in FreezeAtEnd
    /\ options = << >>
    /\ state = "idle"
    /\ frozen_at_start = FALSE
    /\ frozen_at_end = FALSE
    /\ user_pause = FALSE
    /\ quit_load_signal = FALSE
    /\ quit_show_signal = FALSE
    /\ show_status_timer = None
    /\ load_status_timer = None
    /\ load_complete_signal = FALSE
    /\ show_complete_signal = FALSE
    /\ load_timeout = 0
    /\ duration = None
    /\ player = NoPlayer
    /\ timers = [i \in TimerIds |-> "free"]
    /\ realize_pending = FALSE
    /\ loaded = FALSE
    /\ nshow = 0
    /\ closed = 0

(***************************************************************************)
(* load(track, options, x, y, width, height).  A driver instance loads one *)
(* track.  The renderer is put on the canvas and GTK realizes it later     *)
(* (on_renderer_ready).                                                    *)
(***************************************************************************)
load(track_options) ==
    /\ closed = 0
    /\ ~loaded
    /\ options' = track_options
    /\ state' = "load-loading"
    /\ load_complete_signal' = FALSE
    /\ realize_pending' = TRUE
    /\ loaded' = TRUE
    /\ UNCHANGED <<pp, freeze_at_start, freeze_at_end, flags, quits, load_timeout, duration,
                   show_complete_signal, handles, player, timers, nshow, closed>>

(***************************************************************************)
(* apply_options(options): the options are given to the player one by one; *)
(* the result is the returned (status, message) and the options the player *)
(* holds afterwards.  The message is the text, the name and the value.     *)
(***************************************************************************)
RECURSIVE apply_options_rolled_back(_, _)
apply_options_rolled_back(held, opts) ==
    IF opts = << >>
    THEN [status |-> "normal", message |-> << >>, held |-> held]
    ELSE IF PlayerTakes(Head(opts))
    THEN LET rest == apply_options_rolled_back(
                        [held EXCEPT ![Head(opts)[1]] = Some(Head(opts)[2])],
                        Tail(opts))
         IN  IF rest.status = "error" THEN [rest EXCEPT !.held = held] ELSE rest
    ELSE [status |-> "error",
          message |-> <<"bad MPV option: ", Head(opts)[1], Head(opts)[2]>>,
          held |-> held]

RECURSIVE apply_options(_, _)
apply_options(held, opts) ==
    IF opts = << >>
    THEN [status |-> "normal", message |-> << >>, held |-> held]
    ELSE IF PlayerTakes(Head(opts))
    THEN apply_options([held EXCEPT ![Head(opts)[1]] = Some(Head(opts)[2])],
                       Tail(opts))
    ELSE [status |-> "error",
          message |-> <<"bad MPV option: ", Head(opts)[1], Head(opts)[2]>>,
          held |-> held]

(***************************************************************************)
(* on_renderer_ready: the "realize" callback of the renderer.  budget is   *)
(* the number of polls the load may take: LoadTimeout in the source, and   *)
(* PollBudget where the other operations are interleaved with the load.    *)
(***************************************************************************)
on_renderer_ready(budget) ==
    /\ realize_pending
    /\ realize_pending' = FALSE
    /\ player' = [ObserveLoad([player EXCEPT
                                  !.exists = TRUE,
                                  !.options = apply_options(@, options).held,
                                  !.playing = TRUE])
                    EXCEPT !.volume = 0]
    /\ load_timeout' = budget
    /\ timers' = timeout_add(timers, "load")
    /\ load_status_timer' = Some(FreeId(timers))
    /\ UNCHANGED <<pp, config, state, flags, quits, load_complete_signal, duration,
                   show_complete_signal, show_status_timer, loaded, nshow, closed>>

(***************************************************************************)
(* The player itself: it opens the track, plays while not paused and ends. *)
(* time-pos is unavailable (None) until the first frame and after the end. *)
(***************************************************************************)
EngineStart ==
    /\ player.playing
    /\ player.time_pos = None
    /\ player' = Changed([player EXCEPT !.time_pos = Some(0)])
    /\ UNCHANGED <<pp, config, state, flags, quits, loadv, show_complete_signal,
                   handles, timers, env>>

EngineAdvance ==
    /\ player.playing
    /\ ~player.pause
    /\ player.time_pos # None
    /\ \E q \in (Val(player.time_pos) + 1)..Duration :
          player' = Changed([player EXCEPT !.time_pos = Some(q)])
    /\ UNCHANGED <<pp, config, state, flags, quits, loadv, show_complete_signal,
                   handles, timers, env>>

EngineEnd ==
    /\ player.playing
    /\ ~player.pause
    /\ player.time_pos # None
    /\ player' = PlayerStop(player)
    /\ UNCHANGED <<pp, config, state, flags, quits, loadv, show_complete_signal,
                   handles, timers, env>>

(***************************************************************************)
(* load_property_change(name, value): the time-pos observer of the load,   *)
(* called by the player with the current position                          *)
(***************************************************************************)
FirstValidPosition(value) == value # None /\ Val(value) >= 0

load_property_change_reports ==
    /\ player.load_observers > 0
    /\ player.notify_load
    /\ IF FirstValidPosition(player.time_pos)
       THEN /\ player' = UnobserveLoad([player EXCEPT !.pause = TRUE])
            /\ load_complete_signal' = TRUE
            /\ state' = "load-ok"
       ELSE /\ player' = [player EXCEPT !.notify_load = FALSE]
            /\ UNCHANGED <<load_complete_signal, state>>
    /\ UNCHANGED <<pp, config, flags, quits, load_timeout, duration,
                   show_complete_signal, handles, timers, env>>

load_property_change ==
    /\ player.load_observers > 0
    /\ player.notify_load
    /\ IF FirstValidPosition(player.time_pos)
       THEN /\ player' = UnobserveLoad([player EXCEPT !.pause = TRUE])
            /\ load_complete_signal' = TRUE
       ELSE /\ player' = [player EXCEPT !.notify_load = FALSE]
            /\ UNCHANGED load_complete_signal
    /\ UNCHANGED <<pp, config, state, flags, quits, load_timeout, duration,
                   show_complete_signal, handles, timers, env>>

(***************************************************************************)
(* The order of the tests in a poll tick (load_status_loop and             *)
(* show_status_loop): the pending quit first, then the pending completion, *)
(* then another poll.                                                      *)
(***************************************************************************)
PollBranchCompletionFirst(quit, complete) ==
    IF complete THEN "complete" ELSE IF quit THEN "quit" ELSE "poll"

PollBranch(quit, complete) ==
    IF quit THEN "quit" ELSE IF complete THEN "complete" ELSE "poll"

(***************************************************************************)
(* load_status_loop: the poll tick of the load, run from timeout source id *)
(***************************************************************************)
\* the test of the poll budget after a tick has taken one from it (line 171)
BudgetSpentOneEarly(t) == t <= 1

BudgetSpent(t) == t <= 0

LoadOutcomeOnlyBefore(fas) ==
    IF fas = "before-first-frame" THEN "load-frozen" ELSE "load-ok"

LoadOutcome(fas) ==
    IF fas \in {"before-first-frame", "after-first-frame"}
    THEN "load-frozen"
    ELSE "load-ok"

load_status_loop(id) ==
    /\ timers[id] = "load"
    /\ LET T == source_remove(Fired(timers, id), load_status_timer) IN
       IF PollBranch(quit_load_signal, load_complete_signal) = "quit"
       THEN /\ quit_load_signal' = FALSE
            /\ player' = PlayerStop(player)
            /\ state' = "load-unloaded"
            /\ timers' = T
            /\ load_status_timer' = None
            /\ UNCHANGED <<loadv, frozen_at_start>>
       ELSE IF PollBranch(quit_load_signal, load_complete_signal) = "complete"
       THEN /\ load_complete_signal' = FALSE
            /\ duration' = Some(Duration)
            /\ frozen_at_start' = TRUE
            /\ state' = LoadOutcome(freeze_at_start)
            /\ timers' = T
            /\ load_status_timer' = None
            /\ UNCHANGED <<quit_load_signal, player, load_timeout>>
       ELSE /\ load_timeout' = load_timeout - 1
            /\ IF BudgetSpent(load_timeout - 1)
               THEN /\ state' = "load-fail"
                    /\ timers' = T
                    /\ load_status_timer' = None
               ELSE /\ timers' = timeout_add(T, "load")
                    /\ load_status_timer' = Some(FreeId(T))
                    /\ UNCHANGED state
            /\ UNCHANGED <<quit_load_signal, player, load_complete_signal, duration,
                           frozen_at_start>>
    /\ UNCHANGED <<pp, config, frozen_at_end, user_pause, quit_show_signal,
                   show_complete_signal, show_status_timer, env>>

(***************************************************************************)
(* show(initial_volume)                                                    *)
(***************************************************************************)
show(initial_volume) ==
    /\ closed = 0
    /\ IF freeze_at_start = "no"
       THEN IF ~player.exists
            THEN \* self.player does not exist yet: AttributeError after line 193
                 /\ state' = "show-showing"
                 /\ UNCHANGED <<player, show_complete_signal, frozen_at_start,
                                timers, show_status_timer, nshow>>
            ELSE /\ nshow < MaxShow
                 /\ state' = "show-showing"
                 /\ player' = ObserveShow([player EXCEPT !.pause = FALSE,
                                                         !.volume = initial_volume])
                 /\ show_complete_signal' = FALSE
                 /\ frozen_at_start' = FALSE
                 /\ timers' = timeout_add(timers, "show")
                 /\ show_status_timer' = Some(FreeId(timers))
                 /\ nshow' = nshow + 1
       ELSE UNCHANGED <<state, player, show_complete_signal, frozen_at_start,
                        timers, show_status_timer, nshow>>
    /\ UNCHANGED <<pp, config, frozen_at_end, user_pause, quits, loadv,
                   load_status_timer, realize_pending, loaded, closed>>

(***************************************************************************)
(* show_complete_change(name, value): the time-pos observer of the show.   *)
(* The player calls every registered instance with the current position.   *)
(***************************************************************************)
ShowComplete(fae, value, dur) ==
    IF fae = "yes"
    THEN value = None \/ Val(value) > Val(dur) - Epsilon
    ELSE value = None

show_complete_change ==
    /\ player.show_observers > 0
    /\ player.notify_show
    /\ IF freeze_at_end = "yes" /\ player.time_pos # None /\ duration = None
       THEN \* self.duration does not exist yet: AttributeError at line 218
            /\ player' = [player EXCEPT !.notify_show = FALSE]
            /\ UNCHANGED show_complete_signal
       ELSE IF ShowComplete(freeze_at_end, player.time_pos, duration)
       THEN /\ show_complete_signal' = TRUE
            /\ player' = UnobserveShow([player EXCEPT !.volume = 0])
       ELSE /\ player' = [player EXCEPT !.notify_show = FALSE]
            /\ UNCHANGED show_complete_signal
    /\ UNCHANGED <<pp, config, state, flags, quits, loadv, handles, timers, env>>

(***************************************************************************)
(* show_status_loop: the poll tick of the show, run from timeout source id *)
(***************************************************************************)
ShowOutcomeNeverPauses(fae) == "show-niceday"

ShowOutcome(fae) == IF fae = "yes" THEN "show-pauseatend" ELSE "show-niceday"

\* what the tick that ends the show does to the player (lines 243, 248, 256, 268)
EndShowLeavesPlaying(fae, p) == IF fae = "yes" THEN p ELSE PlayerStop(p)

EndShow(fae, p) == IF fae = "yes" THEN [p EXCEPT !.pause = TRUE] ELSE PlayerStop(p)

show_status_loop(id) ==
    /\ timers[id] = "show"
    /\ LET T == source_remove(Fired(timers, id), show_status_timer) IN
       IF PollBranch(quit_show_signal, show_complete_signal) = "quit"
       THEN /\ quit_show_signal' = FALSE
            /\ frozen_at_end' = IF freeze_at_end = "yes" THEN TRUE ELSE frozen_at_end
            /\ player' = EndShow(freeze_at_end, player)
            /\ state' = ShowOutcome(freeze_at_end)
            /\ timers' = T
            /\ show_status_timer' = None
            /\ UNCHANGED show_complete_signal
       ELSE IF PollBranch(quit_show_signal, show_complete_signal) = "complete"
       THEN /\ show_complete_signal' = FALSE
            /\ frozen_at_end' = (freeze_at_end = "yes")
            /\ player' = EndShow(freeze_at_end, player)
            /\ state' = ShowOutcome(freeze_at_end)
            /\ timers' = T
            /\ show_status_timer' = None
            /\ UNCHANGED quit_show_signal
       ELSE /\ timers' = timeout_add(T, "show")
            /\ show_status_timer' = Some(FreeId(T))
            /\ UNCHANGED <<quit_show_signal, show_complete_signal, state,
                           frozen_at_end, player>>
    /\ UNCHANGED <<pp, config, frozen_at_start, user_pause, quit_load_signal, loadv,
                   load_status_timer, env>>

(***************************************************************************)
(* close()                                                                 *)
(***************************************************************************)
close_sets_closed ==
    /\ closed < MaxClose
    /\ player.exists
    /\ state' = "closed"
    /\ player' = PlayerStop(player)
    /\ timers' = source_remove(source_remove(timers, load_status_timer),
                               show_status_timer)
    /\ load_status_timer' = None
    /\ show_status_timer' = None
    /\ closed' = closed + 1
    /\ UNCHANGED <<pp, config, flags, quits, loadv, show_complete_signal,
                   realize_pending, loaded, nshow>>

CancelTimers(T) == source_remove(source_remove(T, load_status_timer), show_status_timer)

close ==
    /\ closed < MaxClose
    /\ IF ~player.exists
       THEN \* self.player does not exist yet: AttributeError at line 280
            UNCHANGED <<player, timers, handles, closed>>
       ELSE /\ player' = PlayerStop(player)
            /\ timers' = CancelTimers(timers)
            /\ load_status_timer' = None
            /\ show_status_timer' = None
            /\ closed' = closed + 1
    /\ UNCHANGED <<pp, config, state, flags, quits, loadv, show_complete_signal,
                   realize_pending, loaded, nshow>>

(***************************************************************************)
(* Commands                                                                *)
(***************************************************************************)
get_state_returns == state

get_state ==
    /\ UNCHANGED vars

GoAcceptedOnlyLoadFrozen == state = "load-frozen"

GoAccepted == frozen_at_start

go_returns == IF GoAccepted THEN "go-ok" ELSE "go-reject"

go(initial_volume) ==
    /\ closed = 0
    /\ IF GoAccepted
       THEN /\ state' = "show-showing"
            /\ player' = ObserveShow([player EXCEPT !.pause = FALSE,
                                                    !.volume = initial_volume])
            /\ show_complete_signal' = FALSE
            /\ timers' = timeout_add(timers, "show")
            /\ show_status_timer' = Some(FreeId(timers))
            /\ frozen_at_start' = FALSE
       ELSE UNCHANGED <<state, player, show_complete_signal, timers,
                        show_status_timer, frozen_at_start>>
    /\ UNCHANGED <<pp, config, frozen_at_end, user_pause, quits, loadv,
                   load_status_timer, env>>

PauseAcceptedAnyState == frozen_at_end = FALSE /\ frozen_at_start = FALSE

PauseAccepted ==
    state = "show-showing" /\ frozen_at_end = FALSE /\ frozen_at_start = FALSE

\* an assignment to self.player.pause raises while self.player does not exist
pause_returns ==
    IF ~PauseAccepted THEN "pause-reject"
    ELSE IF ~player.exists THEN "AttributeError"
    ELSE IF user_pause THEN "pause-off-ok" ELSE "pause-on-ok"

pause ==
    /\ closed = 0
    /\ IF PauseAccepted
       THEN IF user_pause
            THEN IF player.exists
                 THEN /\ player' = [player EXCEPT !.pause = FALSE]
                      /\ user_pause' = FALSE
                 ELSE UNCHANGED <<player, user_pause>>
            ELSE /\ user_pause' = TRUE
                 /\ IF player.exists
                    THEN player' = [player EXCEPT !.pause = TRUE]
                    ELSE UNCHANGED player
       ELSE UNCHANGED <<player, user_pause>>
    /\ UNCHANGED <<pp, config, state, frozen_at_start, frozen_at_end, quits, loadv,
                   show_complete_signal, handles, timers, env>>

pause_on_returns ==
    IF ~PauseAccepted THEN "pause-on-reject"
    ELSE IF ~player.exists THEN "AttributeError" ELSE "pause-on-ok"

pause_on ==
    /\ closed = 0
    /\ IF PauseAccepted
       THEN /\ user_pause' = TRUE
            /\ IF player.exists
               THEN player' = [player EXCEPT !.pause = TRUE]
               ELSE UNCHANGED player
       ELSE UNCHANGED <<player, user_pause>>
    /\ UNCHANGED <<pp, config, state, frozen_at_start, frozen_at_end, quits, loadv,
                   show_complete_signal, handles, timers, env>>

pause_off_returns ==
    IF ~PauseAccepted THEN "pause-off-reject"
    ELSE IF ~player.exists THEN "AttributeError" ELSE "pause-off-ok"

pause_off ==
    /\ closed = 0
    /\ IF PauseAccepted /\ player.exists
       THEN /\ player' = [player EXCEPT !.pause = FALSE]
            /\ user_pause' = FALSE
       ELSE UNCHANGED <<player, user_pause>>
    /\ UNCHANGED <<pp, config, state, frozen_at_start, frozen_at_end, quits, loadv,
                   show_complete_signal, handles, timers, env>>

stop ==
    /\ closed = 0
    /\ IF frozen_at_start
       THEN /\ player' = PlayerStop(player)
            /\ state' = "show-niceday"
            /\ UNCHANGED quit_show_signal
       ELSE /\ quit_show_signal' = TRUE
            /\ UNCHANGED <<player, state>>
    /\ UNCHANGED <<pp, config, flags, quit_load_signal, loadv, show_complete_signal,
                   handles, timers, env>>

unload_at_once ==
    /\ closed = 0
    /\ state' = "load-unloaded"
    /\ UNCHANGED <<pp, config, flags, quits, loadv, show_complete_signal,
                   handles, player, timers, env>>

unload ==
    /\ closed = 0
    /\ IF state = "load-loading"
       THEN /\ quit_load_signal' = TRUE
            /\ UNCHANGED state
       ELSE /\ state' = "load-unloaded"
            /\ UNCHANGED quit_load_signal
    /\ UNCHANGED <<pp, config, flags, quit_show_signal, loadv, show_complete_signal,
                   handles, player, timers, env>>

set_volume(volume) ==
    /\ closed = 0
    /\ IF player.exists
       THEN player' = [player EXCEPT !.volume = volume]
       ELSE UNCHANGED player
    /\ UNCHANGED <<pp, config, state, flags, quits, loadv, show_complete_signal,
                   handles, timers, env>>

(***************************************************************************)
(* PiPresents (src/pipresents.py): the application object, which is the    *)
(* dispatcher of input events and commands.                                *)
(*                                                                         *)
(* pp is the PiPresents object after on_activate, together with what it    *)
(* calls: the registry of the ShowManager, the one-shot sources it has on  *)
(* the GLib main loop, the Monitor's error dialog and the process.  A      *)
(* handler calls other methods and returns or exits in the middle of them, *)
(* so a method is an operator from the record before the call to the       *)
(* record after it, and a method called after sys.exit() does nothing.     *)
(* pp.calls is the sequence of calls the handler that ran last has made,   *)
(* each one <<callee, argument, argument>>.                                *)
(*                                                                         *)
(* pp_showmanager.py and the shows are not part of src/: the ShowManager   *)
(* is modelled from section 4.3 of the specification.                      *)
(***************************************************************************)
NShows == 2
MaxSources == 2
MaxEnd == 2
MaxStart == 3

ShowRefs == [i \in 1..NShows |-> IF i = 1 THEN "show1" ELSE IF i = 2 THEN "show2" ELSE "show3"]
UnknownRef == "nosuch"

Reasons == {"normal", "killed", "error"}

\* the symbols of handle_input_event, and pp-play for the symbols of the shows
Symbols == {"pp-terminate", "pp-shutdown", "pp-shutdownnow", "pp-exitpipresents",
            "pp-restartpipresents", "pp-play"}

\* the commands that are handed to a collaborator, which answers
\* (status, message): counter stands for counter, beep, backlight, monitor, cec
DeviceVerbs == {"counter"}

ShowVerbs == {"open", "close", "closeall", "openexclusive"}

\* the animate lines that are looked at, as line.split(): one with the fields
\* name, parameter type and parameter values, and one that stops after the name
AnimateLines == {<<"out1", "state", "on">>, <<"out1">>}

\* command_text.split() of the command texts that are given to handle_command
Commands ==
    {<< >>, <<"bogus">>, <<"exitpipresents">>, <<"shutdownnow">>, <<"reboot">>,
     <<"restartpipresents">>, <<"closeall">>}
    \cup {<<v>> : v \in DeviceVerbs}
    \cup {<<"event", x>> : x \in Symbols}
    \cup {<<"animate">> \o line : line \in AnimateLines}
    \cup {<<v, ShowRefs[i]>> : v \in ShowVerbs \ {"closeall"}, i \in 1..NShows}
    \cup {<<"open", UnknownRef>>}

\* what the collaborator of a command can answer: a device command can fail, and
\* so can the start of a show that is opened and the output of an animate line
Answers(fields) ==
    IF fields # << >>
       /\ fields[1] \in DeviceVerbs \cup {"open", "openexclusive", "animate"}
    THEN {"normal", "error"}
    ELSE {"normal"}

\* the PiPresents object at line 446, with the shows in `opened` already open
PiPresentsStarted(opened) ==
    [shutdown_required |-> FALSE,
     reboot_required |-> FALSE,
     terminate_required |-> FALSE,
     exitpipresents_required |-> FALSE,
     restartpipresents_required |-> FALSE,
     in_error_exit |-> FALSE,
     shutdownnow_pressed_timer |-> None,
     reboot_pressed_timer |-> None,
     e_all_shows_ended_callback_timer |-> None,
     handle_timer |-> None,
     dialog |-> FALSE,
     proc |-> "running",
     ended |-> << >>,
     issued |-> << >>,
     shows |-> [i \in 1..NShows |->
                  [ref |-> ShowRefs[i],
                   obj |-> (i \in opened),
                   status |-> IF i \in opened THEN "open" ELSE "not-open"]],
     cycle_reason |-> "normal",
     sources |-> << >>,
     next_id |-> 1,
     calls |-> << >>]

\* the value of pp where only the driver is looked at
NoApp == PiPresentsStarted({})

Running(s) == s.proc = "running"

Called(s, callee, a, b) == [s EXCEPT !.calls = Append(@, <<callee, a, b>>)]

(***************************************************************************)
(* GLib one-shot sources of the dispatcher: timeout_add(1, callback).  Ids *)
(* are never used again, and sources of the same interval are dispatched   *)
(* in the order they were added.                                           *)
(***************************************************************************)
RECURSIVE WithoutSource(_, _)
WithoutSource(q, id) ==
    IF q = << >> THEN << >>
    ELSE IF Head(q).id = id THEN WithoutSource(Tail(q), id)
    ELSE <<Head(q)>> \o WithoutSource(Tail(q), id)

\* GLib.source_remove(handle)
SourceRemoved(s, handle) ==
    IF handle = None THEN s
    ELSE [s EXCEPT !.sources = WithoutSource(@, Val(handle))]

\* GLib.timeout_add(1, lambda arg=line: cb(arg)): the new source; its id is
\* s.next_id
SourceAddedWith(s, cb, arg) ==
    [s EXCEPT !.sources = Append(@, [id |-> s.next_id, cb |-> cb, arg |-> arg]),
              !.next_id = @ + 1]

\* GLib.timeout_add(1, cb)
SourceAdded(s, cb) == SourceAddedWith(s, cb, << >>)

(***************************************************************************)
(* ShowManager, from section 4.3 of the specification                      *)
(***************************************************************************)
all_shows_exited(s) ==
    \A i \in 1..NShows : s.shows[i].status \in {"exited", "not-open"}

RefIndex(ref) ==
    IF \E i \in 1..NShows : ShowRefs[i] = ref
    THEN CHOOSE i \in 1..NShows : ShowRefs[i] = ref
    ELSE 0

\* every entry with status open is asked to exit; each reports back later
exit_all_shows(s) ==
    [Called(s, "exit_all_shows", "", "") EXCEPT
        !.shows = [i \in 1..NShows |->
                     IF s.shows[i].status = "open"
                     THEN [s.shows[i] EXCEPT !.status = "closing"]
                     ELSE s.shows[i]]]

CloseShows(shows, which) ==
    [i \in 1..NShows |->
        IF i \in which /\ shows[i].status = "open"
        THEN [shows[i] EXCEPT !.status = "closing"]
        ELSE shows[i]]

OpenShow(shows, k) ==
    IF shows[k].status \in {"not-open", "exited"}
    THEN [shows EXCEPT ![k] = [@ EXCEPT !.status = "open", !.obj = TRUE]]
    ELSE shows

\* the reason control_a_show returns; answer is error when a show that is opened
\* fails to start
control_a_show_returns(s, show_ref, verb, answer) ==
    IF verb = "closeall" THEN "normal"
    ELSE IF RefIndex(show_ref) = 0 THEN "error"
    ELSE IF verb \in {"open", "openexclusive"}
            /\ s.shows[RefIndex(show_ref)].status \in {"not-open", "exited"}
            /\ answer = "error"
    THEN "error"
    ELSE "normal"

control_a_show(s, show_ref, verb, answer) ==
    LET t == Called(s, "control_a_show", show_ref, verb)
        k == RefIndex(show_ref)
    IN  IF control_a_show_returns(s, show_ref, verb, answer) = "error" THEN t
        ELSE IF verb = "closeall"
        THEN [t EXCEPT !.shows = CloseShows(@, 1..NShows)]
        ELSE IF verb = "close"
        THEN [t EXCEPT !.shows = CloseShows(@, {k})]
        ELSE IF verb = "open"
        THEN [t EXCEPT !.shows = OpenShow(@, k)]
        ELSE [t EXCEPT !.shows = OpenShow(CloseShows(@, (1..NShows) \ {k}), k)]

\* show_obj.terminate() of the show in entry i
ShowTerminate(s, i) ==
    [Called(s, "terminate", s.shows[i].ref, "") EXCEPT
        !.shows[i].status = "closing",
        !.cycle_reason = "killed"]

\* show_obj.handle_input_event(symbol) of the show in entry i
ShowInput(s, i, symbol) == Called(s, "show.handle_input_event", s.shows[i].ref, symbol)

(***************************************************************************)
(* Monitor.err (src/pp_utils.py) puts a modal PPDialog with finish=102 on  *)
(* the screen.  Under the manager (Monitor.manager) it makes no dialog:    *)
(* that run is the one where the OK button is never clicked.               *)
(***************************************************************************)
mon_err(s) == [s EXCEPT !.dialog = TRUE]

(***************************************************************************)
(* end(reason, message)                                                    *)
(***************************************************************************)
end_restart_last(s, reason) ==
    IF ~Running(s) THEN s
    ELSE LET t == [Called(s, "end", reason, "") EXCEPT !.ended = Append(@, reason)]
         IN  IF reason = "killed" THEN [t EXCEPT !.proc = "exit101"]
             ELSE IF reason = "error"
             THEN IF t.in_error_exit THEN [t EXCEPT !.proc = "exit102"] ELSE t
             ELSE [t EXCEPT !.issued =
                              (IF t.reboot_required THEN <<"reboot">> ELSE << >>)
                              \o (IF t.shutdown_required THEN <<"shutdown">> ELSE << >>),
                            !.proc = IF t.restartpipresents_required THEN "restart"
                                     ELSE "exit100"]

end(s, reason) ==
    IF ~Running(s) THEN s
    ELSE LET t == [Called(s, "end", reason, "") EXCEPT !.ended = Append(@, reason)]
         IN  IF reason = "killed" THEN [t EXCEPT !.proc = "exit101"]
             ELSE IF reason = "error"
             THEN IF t.in_error_exit THEN [t EXCEPT !.proc = "exit102"] ELSE t
             ELSE IF t.restartpipresents_required THEN [t EXCEPT !.proc = "restart"]
             ELSE [t EXCEPT !.issued =
                              (IF t.reboot_required THEN <<"reboot">> ELSE << >>)
                              \o (IF t.shutdown_required THEN <<"shutdown">> ELSE << >>),
                            !.proc = "exit100"]

(***************************************************************************)
(* all_shows_ended_callback(reason, message) and its one-tick form         *)
(***************************************************************************)
\* the test of line 789
EndIsDueAlsoOnTerminate(s, reason) ==
    \/ reason \in {"killed", "error"}
    \/ s.shutdown_required
    \/ s.terminate_required
    \/ s.exitpipresents_required
    \/ s.reboot_required
    \/ s.restartpipresents_required

EndIsDue(s, reason) ==
    \/ reason \in {"killed", "error"}
    \/ s.shutdown_required
    \/ s.exitpipresents_required
    \/ s.reboot_required
    \/ s.restartpipresents_required

\* ioplugin_manager.start() is reached when end() was not called and when
\* end() returned (an error after startup, a restart)
all_shows_ended_callback(s, reason) ==
    IF ~Running(s) THEN s
    ELSE LET t == Called(s, "all_shows_ended_callback", reason, "")
             u == IF EndIsDue(s, reason) THEN end(t, reason) ELSE t
         IN  IF u.proc \in {"running", "restart"}
             THEN Called(u, "ioplugin_manager.start", "", "")
             ELSE u

e_all_shows_ended_callback(s) ==
    all_shows_ended_callback(
        SourceRemoved(s, s.e_all_shows_ended_callback_timer), "normal")

(***************************************************************************)
(* shutdownnow_pressed, reboot_pressed                                     *)
(***************************************************************************)
shutdownnow_pressed(s) ==
    LET t == [SourceRemoved(s, s.shutdownnow_pressed_timer)
                EXCEPT !.shutdown_required = TRUE]
    IN  IF all_shows_exited(t)
        THEN all_shows_ended_callback(t, "normal")
        ELSE exit_all_shows(t)

reboot_pressed_instead(s) ==
    LET t == [SourceRemoved(s, s.reboot_pressed_timer)
                EXCEPT !.reboot_required = TRUE, !.shutdown_required = FALSE]
    IN  IF all_shows_exited(t)
        THEN all_shows_ended_callback(t, "normal")
        ELSE exit_all_shows(t)

reboot_pressed(s) ==
    LET t == [SourceRemoved(s, s.reboot_pressed_timer)
                EXCEPT !.reboot_required = TRUE]
    IN  IF all_shows_exited(t)
        THEN all_shows_ended_callback(t, "normal")
        ELSE exit_all_shows(t)

(***************************************************************************)
(* terminate(), called by handle_sigterm and handle_user_abort             *)
(***************************************************************************)
RECURSIVE TerminateShows(_, _)
TerminateShows(s, i) ==
    IF i > NShows THEN s
    ELSE TerminateShows(IF s.shows[i].obj THEN ShowTerminate(s, i) ELSE s, i + 1)

needs_termination(s) == \E i \in 1..NShows : s.shows[i].obj

terminate_always_ends(s) ==
    end(TerminateShows([s EXCEPT !.terminate_required = TRUE], 1), "killed")

terminate(s) ==
    LET t == TerminateShows([s EXCEPT !.terminate_required = TRUE], 1)
    IN  IF needs_termination(s) THEN t ELSE end(t, "killed")

(***************************************************************************)
(* run_start_shows(), called by on_activate at line 448.  show_refs is     *)
(* starter_show['start-show'].split(); answers[i] is what the start of the *)
(* i-th show answers when the ShowManager opens it.  The call of           *)
(* self.terminate() is written to the calls.                               *)
(***************************************************************************)
StartShowLists ==
    UNION {[1..n -> {ShowRefs[i] : i \in 1..NShows} \cup {UnknownRef}] :
             n \in 0..MaxStart}

RECURSIVE RunStartShows(_, _, _, _)
RunStartShows(s, show_refs, answers, i) ==
    IF i > Len(show_refs) \/ ~Running(s) THEN s
    ELSE LET t == control_a_show(s, show_refs[i], "open", answers[i])
         IN  IF control_a_show_returns(s, show_refs[i], "open", answers[i]) = "error"
             THEN RunStartShows(
                     terminate(Called(mon_err(t), "self.terminate", "", "")),
                     show_refs, answers, i + 1)
             ELSE RunStartShows(t, show_refs, answers, i + 1)

run_start_shows(s, show_refs, answers) == RunStartShows(s, show_refs, answers, 1)

(***************************************************************************)
(* handle_input_event(symbol, source)                                      *)
(***************************************************************************)
RECURSIVE BroadcastToEveryEntry(_, _, _)
BroadcastToEveryEntry(s, symbol, i) ==
    IF i > NShows THEN s
    ELSE BroadcastToEveryEntry(ShowInput(s, i, symbol), symbol, i + 1)

RECURSIVE Broadcast(_, _, _)
Broadcast(s, symbol, i) ==
    IF i > NShows THEN s
    ELSE Broadcast(IF s.shows[i].obj THEN ShowInput(s, i, symbol) ELSE s,
                   symbol, i + 1)

\* exit_all_shows(), or the one-tick hop to the callback when no show is open
ExitShowsOrCallback(t) ==
    IF all_shows_exited(t)
    THEN [SourceAdded(t, "e_all_shows_ended_callback")
            EXCEPT !.e_all_shows_ended_callback_timer = Some(t.next_id)]
    ELSE exit_all_shows(t)

handle_input_event(s, symbol) ==
    IF symbol = "pp-terminate" THEN terminate(s)
    ELSE IF symbol = "pp-shutdown" THEN end(mon_err(s), "error")
    ELSE IF symbol = "pp-shutdownnow"
    THEN [SourceAdded(s, "shutdownnow_pressed")
            EXCEPT !.shutdownnow_pressed_timer = Some(s.next_id)]
    ELSE IF symbol = "pp-exitpipresents"
    THEN ExitShowsOrCallback([s EXCEPT !.exitpipresents_required = TRUE])
    ELSE IF symbol = "pp-restartpipresents"
    THEN ExitShowsOrCallback([s EXCEPT !.restartpipresents_required = TRUE])
    ELSE Broadcast(s, symbol, 1)

(***************************************************************************)
(* Animate.parse_animate_fields(line), from section 4.2 of the              *)
(* specification: the line holds delay, name, parameter type and parameter *)
(* values; a line with a field missing is a parse error.  The result is    *)
(* <<reason, name, param_type, param_values>>.                             *)
(***************************************************************************)
parse_animate_fields(line) ==
    IF Len(line) >= 4
    THEN <<"normal", line[2], line[3], SubSeq(line, 4, Len(line))>>
    ELSE <<"error", "", "", << >> >>

(***************************************************************************)
(* handle_output_event(symbol, param_type, param_values, req_time); answer *)
(* is the reason the I/O plugin manager gives back.                        *)
(***************************************************************************)
handle_output_event(s, symbol, param_type, answer) ==
    IF ~Running(s) THEN s
    ELSE LET t == Called(s, "ioplugin_manager.handle_output_event", symbol, param_type)
         IN  IF answer = "error" THEN end(mon_err(t), "error") ELSE t

(***************************************************************************)
(* show_control_handle_animate(line)                                       *)
(***************************************************************************)
show_control_handle_animate(s, line, answer) ==
    LET parsed == parse_animate_fields(<<"0">> \o line)
        t == IF parsed[1] = "error" THEN end(mon_err(s), "error") ELSE s
    IN  handle_output_event(t, parsed[2], parsed[3], answer)

(***************************************************************************)
(* e_osc_handle_animate(line), called in the thread of the OSC server, and *)
(* osc_handle_animate(line), which the main loop runs one tick later.  The *)
(* OSC driver sends the whole line, delay included.                        *)
(***************************************************************************)
e_osc_handle_animate(s, line) ==
    [SourceAddedWith(s, "osc_handle_animate", line)
        EXCEPT !.handle_timer = Some(s.next_id)]

osc_handle_animate(s, line, answer) ==
    LET r == SourceRemoved(s, s.handle_timer)
        parsed == parse_animate_fields(line)
        t == IF parsed[1] = "error" THEN end(mon_err(r), "error") ELSE r
    IN  handle_output_event(Called(t, "osc_handle_animate", "", ""),
                            parsed[2], parsed[3], answer)

(***************************************************************************)
(* The command event: handle_input_event(show_ref, 'Show Control')         *)
(***************************************************************************)
EventCommandToShowsOnly(s, show_ref) == Broadcast(s, show_ref, 1)

EventCommand(s, show_ref) == handle_input_event(s, show_ref)

(***************************************************************************)
(* The test that lets a show command through to the ShowManager            *)
(***************************************************************************)
ShowCommandsAllowedUnlessShutdown(s) == ~s.shutdown_required

ShowCommandsAllowed(s) == ~s.shutdown_required /\ ~s.terminate_required

(***************************************************************************)
(* handle_command(command_text, source, show).  fields is                  *)
(* command_text.split(); answer is the status the collaborator of the      *)
(* command gives back.                                                     *)
(***************************************************************************)
handle_command(s, fields, answer) ==
    IF fields = << >> THEN s
    ELSE IF fields[1] \in DeviceVerbs
    THEN IF answer = "error"
         THEN end(mon_err(Called(s, fields[1], "", "")), "error")
         ELSE Called(s, fields[1], "", "")
    ELSE IF fields[1] = "animate"
    THEN show_control_handle_animate(s, Tail(fields), answer)
    ELSE LET show_command == fields[1]
             show_ref == IF Len(fields) > 1 THEN fields[2] ELSE ""
         IN  IF show_command \in ShowVerbs
             THEN IF ShowCommandsAllowed(s)
                  THEN IF control_a_show_returns(s, show_ref, show_command, answer)
                            = "error"
                       THEN end(mon_err(control_a_show(s, show_ref, show_command,
                                                       answer)), "error")
                       ELSE control_a_show(s, show_ref, show_command, answer)
                  ELSE s
             ELSE IF show_command = "event"
             THEN EventCommand(s, show_ref)
             ELSE IF show_command = "exitpipresents"
             THEN ExitShowsOrCallback([s EXCEPT !.exitpipresents_required = TRUE])
             ELSE IF show_command = "shutdownnow"
             THEN [SourceAdded(s, "shutdownnow_pressed")
                     EXCEPT !.shutdownnow_pressed_timer = Some(s.next_id)]
             ELSE IF show_command = "reboot"
             THEN [SourceAdded(s, "reboot_pressed")
                     EXCEPT !.reboot_pressed_timer = Some(s.next_id)]
             ELSE end(mon_err(s), "error")

(***************************************************************************)
(* The steps of the application: a handler called by an input source, a    *)
(* show or the scheduler, a one-shot source dispatched by the main loop, a *)
(* show that reports its exit to the ShowManager, the OK button of the     *)
(* error dialog.  Nothing runs once the process has exited.                *)
(***************************************************************************)
Begin(s) == [s EXCEPT !.calls = << >>]

\* the part of the run that is looked at
Bounded(n) == n.next_id <= MaxSources + 1 /\ Len(n.ended) <= MaxEnd

input_event(symbol) ==
    /\ Running(pp)
    /\ Bounded(handle_input_event(Begin(pp), symbol))
    /\ pp' = handle_input_event(Begin(pp), symbol)
    /\ UNCHANGED driver

command(fields, answer) ==
    /\ Running(pp)
    /\ Bounded(handle_command(Begin(pp), fields, answer))
    /\ pp' = handle_command(Begin(pp), fields, answer)
    /\ UNCHANGED driver

handle_sigterm ==
    /\ Running(pp)
    /\ Bounded(terminate(Begin(pp)))
    /\ pp' = terminate(Begin(pp))
    /\ UNCHANGED driver

\* the main loop takes the source that was added first
Dispatched(s) == Begin([s EXCEPT !.sources = Tail(@)])

osc_animate(line) ==
    /\ Running(pp)
    /\ Bounded(e_osc_handle_animate(Begin(pp), line))
    /\ pp' = e_osc_handle_animate(Begin(pp), line)
    /\ UNCHANGED driver

dispatch_osc_handle_animate(answer) ==
    /\ Running(pp)
    /\ pp.sources # << >>
    /\ Head(pp.sources).cb = "osc_handle_animate"
    /\ Bounded(osc_handle_animate(Dispatched(pp), Head(pp.sources).arg, answer))
    /\ pp' = osc_handle_animate(Dispatched(pp), Head(pp.sources).arg, answer)
    /\ UNCHANGED driver

dispatch_shutdownnow_pressed ==
    /\ Running(pp)
    /\ pp.sources # << >>
    /\ Head(pp.sources).cb = "shutdownnow_pressed"
    /\ Bounded(shutdownnow_pressed(Dispatched(pp)))
    /\ pp' = shutdownnow_pressed(Dispatched(pp))
    /\ UNCHANGED driver

dispatch_reboot_pressed ==
    /\ Running(pp)
    /\ pp.sources # << >>
    /\ Head(pp.sources).cb = "reboot_pressed"
    /\ Bounded(reboot_pressed(Dispatched(pp)))
    /\ pp' = reboot_pressed(Dispatched(pp))
    /\ UNCHANGED driver

dispatch_e_all_shows_ended_callback ==
    /\ Running(pp)
    /\ pp.sources # << >>
    /\ Head(pp.sources).cb = "e_all_shows_ended_callback"
    /\ Bounded(e_all_shows_ended_callback(Dispatched(pp)))
    /\ pp' = e_all_shows_ended_callback(Dispatched(pp))
    /\ UNCHANGED driver

\* ShowManager: the show of entry i has exited (how = "error": it failed); the
\* entry is cleared, and when no entry is left open or closing the manager calls
\* all_shows_ended_callback with the reason of this round of exits
ShowExited(s, i, how) ==
    LET reason == IF how = "error" THEN "error" ELSE s.cycle_reason
        t == [s EXCEPT !.shows[i].status = "exited",
                       !.shows[i].obj = FALSE,
                       !.cycle_reason = reason]
    IN  IF all_shows_exited(t)
        THEN all_shows_ended_callback([t EXCEPT !.cycle_reason = "normal"], reason)
        ELSE t

show_exited(i, how) ==
    /\ Running(pp)
    /\ pp.shows[i].status \in {"open", "closing"}
    /\ Bounded(ShowExited(Begin(pp), i, how))
    /\ pp' = ShowExited(Begin(pp), i, how)
    /\ UNCHANGED driver

\* PPDialog.on_ok_clicked: sys.exit(self.finish)
on_ok_clicked ==
    /\ Running(pp)
    /\ pp.dialog
    /\ pp' = [Begin(pp) EXCEPT !.dialog = FALSE, !.proc = "exit102"]
    /\ UNCHANGED driver

PiPresentsInit ==
    /\ Init
    /\ freeze_at_start = "no"
    /\ freeze_at_end = "no"
    /\ pp \in {PiPresentsStarted(opened) : opened \in SUBSET (1..NShows)}

PiPresentsNext ==
    \/ \E symbol \in Symbols : input_event(symbol)
    \/ \E fields \in Commands : \E answer \in Answers(fields) :
          command(fields, answer)
    \/ handle_sigterm
    \/ dispatch_shutdownnow_pressed
    \/ dispatch_reboot_pressed
    \/ dispatch_e_all_shows_ended_callback
    \/ \E i \in 1..NShows, how \in {"normal", "error"} : show_exited(i, how)
    \/ on_ok_clicked

\* on_activate at line 448: the start shows are opened
start_shows(show_refs, answers) ==
    /\ pp = NoApp
    /\ pp' = run_start_shows(Begin(pp), show_refs, answers)
    /\ UNCHANGED driver

\* the start of the application: the start shows are opened, and then they
\* exit, by themselves or because the application is terminated
StartInit ==
    /\ Init
    /\ freeze_at_start = "no"
    /\ freeze_at_end = "no"
    /\ pp = NoApp

StartNext ==
    \/ \E show_refs \in StartShowLists :
          \E answers \in [1..Len(show_refs) -> {"normal", "error"}] :
             start_shows(show_refs, answers)
    \/ handle_sigterm
    \/ \E i \in 1..NShows, how \in {"normal", "error"} : show_exited(i, how)
    \/ on_ok_clicked

StartSpec == StartInit /\ [][StartNext]_vars

\* the application with OSC disabled: no line comes from the OSC server
PiPresentsSpec == PiPresentsInit /\ [][PiPresentsNext]_vars

\* the commands that are looked at beside the lines of the OSC server
OscCommands ==
    {<<"animate">> \o line : line \in AnimateLines}
    \cup {<<"shutdownnow">>, <<"exitpipresents">>}

\* the application with OSC enabled, where animate lines come from the OSC
\* server and from show control
OscNext ==
    \/ \E line \in AnimateLines : osc_animate(<<"0">> \o line)
    \/ \E answer \in {"normal", "error"} : dispatch_osc_handle_animate(answer)
    \/ \E fields \in OscCommands : \E answer \in Answers(fields) :
          command(fields, answer)
    \/ dispatch_shutdownnow_pressed
    \/ dispatch_e_all_shows_ended_callback
    \/ \E i \in 1..NShows, how \in {"normal", "error"} : show_exited(i, how)
    \/ on_ok_clicked

OscSpec == PiPresentsInit /\ [][OscNext]_vars

(***************************************************************************)
(* The driver with its owner, the main loop and the player                 *)
(***************************************************************************)
Next ==
    \/ load(<< >>)
    \/ on_renderer_ready(PollBudget)
    \/ EngineStart
    \/ EngineAdvance
    \/ EngineEnd
    \/ load_property_change
    \/ \E id \in TimerIds : load_status_loop(id)
    \/ \E v \in Volumes : show(v)
    \/ show_complete_change
    \/ \E id \in TimerIds : show_status_loop(id)
    \/ close
    \/ get_state
    \/ \E v \in Volumes : go(v)
    \/ pause
    \/ pause_on
    \/ pause_off
    \/ stop
    \/ unload
    \/ \E v \in Volumes : set_volume(v)

\* the driver alone: the dispatcher stays as it started
MPVDriverInit == Init /\ pp = NoApp

Spec == MPVDriverInit /\ [][Next]_vars

\* the load alone, with the poll budget of the source
LoadNext ==
    \/ load(<< >>)
    \/ on_renderer_ready(LoadTimeout)
    \/ EngineStart
    \/ load_property_change
    \/ \E id \in TimerIds : load_status_loop(id)
    \/ unload
    \/ close

LoadSpec == MPVDriverInit /\ [][LoadNext]_vars

\* the load of a track that comes with a list of mpv options
OptionsNext ==
    \/ \E track_options \in OptionLists : load(track_options)
    \/ on_renderer_ready(PollBudget)
    \/ EngineStart
    \/ load_property_change
    \/ \E id \in TimerIds : load_status_loop(id)
    \/ get_state
    \/ unload
    \/ close

OptionsSpec == MPVDriverInit /\ [][OptionsNext]_vars

\* the load with the main loop running the poll tick whenever its source is armed
LoadFairSpec ==
    /\ LoadSpec
    /\ WF_vars(\E id \in TimerIds : load_status_loop(id))

\* the main loop runs the callback of every timeout source that stays armed, and
\* the player delivers every change of time-pos to its observers
FairSpec ==
    /\ Spec
    /\ WF_vars(\E id \in TimerIds : load_status_loop(id))
    /\ WF_vars(\E id \in TimerIds : show_status_loop(id))
    /\ WF_vars(load_property_change)
    /\ WF_vars(show_complete_change)

(***************************************************************************)
(* Properties of the driver                                                *)
(***************************************************************************)
LoadTick == \E id \in TimerIds : load_status_loop(id)
ShowTick == \E id \in TimerIds : show_status_loop(id)
Go == \E v \in Volumes : go(v)

\* C1: a load poll tick that finds the first valid position reported
\* (load_complete_signal) and no unload pending moves load-loading to load-frozen
\* when freeze_at_start is before-first-frame or after-first-frame and to load-ok
\* otherwise, whatever the rest of the state is.
C1_LoadCompletes ==
    [][(LoadTick /\ state = "load-loading" /\ load_complete_signal
           /\ ~quit_load_signal)
        => state' = (IF freeze_at_start \in {"before-first-frame", "after-first-frame"}
                     THEN "load-frozen" ELSE "load-ok")]_vars

C1_Witness ==
    /\ state = "load-frozen"
    /\ freeze_at_start = "after-first-frame"
    /\ frozen_at_start
    /\ duration # None

C3_PauseGuard ==
    /\ [](IF state = "show-showing" /\ ~frozen_at_start /\ ~frozen_at_end
          THEN player.exists =>
                  pause_returns = (IF user_pause THEN "pause-off-ok" ELSE "pause-on-ok")
          ELSE /\ pause_returns = "pause-reject"
               /\ pause_on_returns = "pause-on-reject"
               /\ pause_off_returns = "pause-off-reject")
    /\ [][((pause \/ pause_on \/ pause_off)
             /\ ~(state = "show-showing" /\ ~frozen_at_start /\ ~frozen_at_end))
            => player'.pause = player.pause /\ user_pause' = user_pause]_vars
    /\ [][(pause /\ state = "show-showing" /\ ~frozen_at_start /\ ~frozen_at_end
             /\ player.exists)
            => user_pause' = ~user_pause /\ player'.pause = user_pause']_vars

C3_Witness ==
    /\ state = "show-showing"
    /\ player.exists
    /\ user_pause
    /\ player.pause

\* C4: the observer of the show signals completion when time-pos is None and,
\* with freeze_at_end set, when time-pos is above duration - 0.12; with
\* freeze_at_end not set a position never signals completion.  A show poll tick
\* that finds the signal while state is show-showing moves to show-pauseatend
\* when freeze_at_end is set and to show-niceday otherwise.
C4_ShowCompletes ==
    /\ [][(ShowTick /\ state = "show-showing" /\ show_complete_signal)
            => state' = (IF freeze_at_end = "yes" THEN "show-pauseatend"
                         ELSE "show-niceday")]_vars
    /\ [][(show_complete_change /\ freeze_at_end = "no" /\ player.time_pos # None)
            => UNCHANGED show_complete_signal]_vars
    /\ [][(show_complete_change
             /\ (\/ player.time_pos = None
                 \/ /\ freeze_at_end = "yes"
                    /\ duration # None
                    /\ Val(player.time_pos) > Val(duration) - Epsilon))
            => show_complete_signal']_vars

C4_Witness ==
    /\ state = "show-pauseatend"
    /\ frozen_at_end
    /\ player.pause
    /\ player.time_pos # None
    /\ player.show_observers = 0
    /\ player.volume = 0

\* C5: when stop() has been requested while state is show-showing (the request
\* is pending in quit_show_signal) and close() is not called, the driver
\* eventually reaches show-pauseatend when freeze_at_end is set and show-niceday
\* otherwise.
C5_StopEndsShow ==
    (state = "show-showing" /\ quit_show_signal /\ closed = 0)
        ~> (\/ closed > 0
            \/ state = (IF freeze_at_end = "yes" THEN "show-pauseatend"
                        ELSE "show-niceday"))

\* C6 as stated: whenever the driver enters show-pauseatend the player is paused
\* and its volume is 0.
C6_PausedAndMutedAtEnd ==
    [][(state' = "show-pauseatend" /\ state # "show-pauseatend")
        => player'.pause /\ player'.volume = 0]_vars

\* C6 amended: whenever the driver enters show-pauseatend the player is paused;
\* the volume is set to 0 by the observer of the show when it signals completion,
\* and the tick that honours a stop() request leaves the volume as it is.
C6_PausedAtEnd ==
    /\ [][(state' = "show-pauseatend" /\ state # "show-pauseatend")
            => player'.pause]_vars
    /\ [][(show_complete_signal' /\ ~show_complete_signal)
            => player'.volume = 0]_vars
    /\ [][(ShowTick /\ quit_show_signal) => player'.volume = player.volume]_vars

C6_Witness ==
    /\ state = "show-pauseatend"
    /\ frozen_at_end
    /\ player.pause
    /\ player.volume = 100
    /\ ~show_complete_signal

\* C7 as stated: once close() has been called get_state() returns closed.
C7_ClosedAfterClose == closed > 0 => get_state_returns = "closed"

\* C7 amended: close() does not assign the state, so get_state() returns after
\* close() what it returned before it, and closed is never returned.
C7_CloseKeepsState ==
    /\ [](get_state_returns # "closed")
    /\ [][close => state' = state]_vars

C7_Witness ==
    /\ closed > 0
    /\ state = "show-pauseatend"
    /\ get_state_returns = "show-pauseatend"

\* C8: once close() has returned no timeout source of the driver is armed.
C8_NoTimerAfterClose == closed > 0 => \A id \in TimerIds : timers[id] = "free"

\* C9: a second close() removes no timeout source and changes nothing of the
\* driver.
C9_SecondCloseChangesNothing ==
    [][(close /\ closed >= 1)
        => /\ timers' = timers
           /\ UNCHANGED <<state, flags, quits, handles>>]_vars

\* C10: no time-pos observer of the load is registered once the load has ended
\* (load-ok, load-frozen, load-fail, load-unloaded), none of the show once the
\* show has ended (show-pauseatend, show-niceday), and none at all after close().
C10_ObserversReleased ==
    /\ state \in {"load-ok", "load-frozen", "load-fail", "load-unloaded"}
          => player.load_observers = 0
    /\ state \in {"show-pauseatend", "show-niceday"} => player.show_observers = 0
    /\ closed > 0 => player.load_observers = 0 /\ player.show_observers = 0

\* C11: in every reachable state at most one time-pos observer
\* (load_property_change or show_complete_change) is registered with the player.
C11_AtMostOneObserver == player.load_observers + player.show_observers <= 1

\* C12: a poll tick examines the pending quit before the pending completion:
\* a load tick that finds both unload() and the completion pending ends in
\* load-unloaded and leaves frozen_at_start, the duration and the completion flag
\* as they are (never load-ok or load-frozen); a show tick that finds both
\* stop() and the completion pending takes the stop outcome, clears the quit
\* flag and leaves the completion flag set.
C12_QuitBeforeComplete ==
    /\ [][(LoadTick /\ quit_load_signal /\ load_complete_signal)
            => /\ state' = "load-unloaded"
               /\ ~quit_load_signal'
               /\ UNCHANGED <<load_complete_signal, frozen_at_start, duration>>]_vars
    /\ [][(ShowTick /\ quit_show_signal /\ show_complete_signal)
            => /\ state' = (IF freeze_at_end = "yes" THEN "show-pauseatend"
                            ELSE "show-niceday")
               /\ ~quit_show_signal'
               /\ UNCHANGED show_complete_signal]_vars

C12_Witness ==
    /\ state = "load-unloaded"
    /\ load_complete_signal
    /\ ~quit_load_signal
    /\ load_status_timer = None
    /\ \A id \in TimerIds : timers[id] # "load"
    /\ player.exists
    /\ closed = 0

\* C13: once the renderer is ready the load has a budget of 500 poll ticks.
\* Every tick that finds neither an unload request nor the completion signal
\* takes one from the budget, and the state becomes load-fail on exactly the tick
\* that takes the last one; load-fail is never the state while budget remains;
\* while the poll is armed between 1 and 500 ticks remain, so that the load has
\* left load-loading after at most 500 ticks; and with the poll timer scheduled
\* fairly the driver does leave load-loading, unless close() cancels the load.
C13_LoadTerminates ==
    /\ [][on_renderer_ready(LoadTimeout) => load_timeout' = 500]_vars
    /\ [](state = "load-fail" => load_timeout = 0)
    /\ [](load_status_timer # None => load_timeout \in 1..500)
    /\ [][(LoadTick /\ ~quit_load_signal /\ ~load_complete_signal)
            => /\ load_timeout' = load_timeout - 1
               /\ (state' = "load-fail") <=> (load_timeout = 1)
               /\ (load_status_timer' = None) <=> (load_timeout = 1)]_vars
    /\ [][(LoadTick /\ (quit_load_signal \/ load_complete_signal))
            => state' # "load-fail" /\ load_status_timer' = None]_vars
    /\ (load_status_timer # None)
          ~> (state # "load-loading" \/ closed > 0)

C13_Witness ==
    /\ state = "load-fail"
    /\ load_timeout = 0
    /\ ~load_complete_signal
    /\ ~quit_load_signal
    /\ load_status_timer = None
    /\ closed = 0

\* C14: unload() called while state is load-loading changes neither the state
\* nor the player, it only leaves the request pending; the next load poll tick
\* stops the player and moves to load-unloaded; and once the request is pending
\* with the poll armed, load-unloaded is reached under fair scheduling of the
\* poll timer, unless close() cancels the poll.
C14_UnloadIsCooperative ==
    /\ [][(unload /\ state = "load-loading")
            => /\ quit_load_signal'
               /\ UNCHANGED <<state, player, timers, handles>>]_vars
    /\ [][(LoadTick /\ quit_load_signal)
            => /\ state' = "load-unloaded"
               /\ ~player'.playing
               /\ player'.time_pos = None
               /\ ~quit_load_signal']_vars
    /\ (quit_load_signal /\ load_status_timer # None)
          ~> (state = "load-unloaded" \/ closed > 0)

C14_Witness ==
    /\ state = "load-unloaded"
    /\ ~quit_load_signal
    /\ duration = None
    /\ load_timeout = PollBudget
    /\ load_status_timer = None
    /\ \A id \in TimerIds : timers[id] # "load"
    /\ player.exists
    /\ ~player.playing
    /\ closed = 0

(***************************************************************************)
(* Properties of the dispatcher                                            *)
(***************************************************************************)
HasCall(s, callee) == \E k \in 1..Len(s.calls) : s.calls[k][1] = callee
EndExecuted == Len(pp'.ended) > Len(pp.ended)
LastEnd(s) == s.ended[Len(s.ended)]

\* C15: once pp-exitpipresents has been received while shows are open, end()
\* executes exactly once in the run: while the shows are still exiting end() is
\* executed by nothing but the all-shows-ended callback, whatever events,
\* commands and errors arrive; and the callback that fires after the request
\* executes end(), which is then the first end() of the run and the last.
C15_EndExactlyOnce ==
    /\ [][(pp.exitpipresents_required /\ ~all_shows_exited(pp) /\ EndExecuted
             /\ LastEnd(pp') # "killed")
            => HasCall(pp', "all_shows_ended_callback")]_vars
    /\ [][(pp.exitpipresents_required /\ HasCall(pp', "all_shows_ended_callback"))
            => /\ EndExecuted
               /\ Len(pp.ended) = 0
               /\ ~Running(pp')]_vars

\* the final shutdown is on its way: the one-tick hop to the callback is armed
CallbackArmed(s) ==
    \E k \in 1..Len(s.sources) : s.sources[k].cb = "e_all_shows_ended_callback"

\* the callback of the one-shot source that was added last
CallbackOf(s) == IF s.sources = << >> THEN "" ELSE s.sources[Len(s.sources)].cb

\* C16: every app-lifecycle request sets its pending flag and then, when all
\* shows are exited, goes on to the final shutdown without calling
\* exit_all_shows(), and otherwise calls exit_all_shows() and leaves the final
\* shutdown to the all-shows-ended callback.  exitpipresents and
\* restartpipresents do so in the handler (command and pp- event), shutdownnow
\* and reboot in the one-tick callback the handler arms.
C16_LifecycleRequest ==
    /\ [][(input_event("pp-exitpipresents") \/ command(<<"exitpipresents">>, "normal"))
            => /\ pp'.exitpipresents_required
               /\ IF all_shows_exited(pp)
                  THEN ~HasCall(pp', "exit_all_shows") /\ CallbackArmed(pp')
                  ELSE HasCall(pp', "exit_all_shows") /\ ~EndExecuted]_vars
    /\ [][(input_event("pp-restartpipresents")
             \/ command(<<"restartpipresents">>, "normal"))
            => /\ pp'.restartpipresents_required
               /\ IF all_shows_exited(pp)
                  THEN ~HasCall(pp', "exit_all_shows") /\ CallbackArmed(pp')
                  ELSE HasCall(pp', "exit_all_shows") /\ ~EndExecuted]_vars
    /\ [][(input_event("pp-shutdownnow") \/ command(<<"shutdownnow">>, "normal"))
            => /\ Len(pp'.sources) = Len(pp.sources) + 1
               /\ pp'.sources[Len(pp'.sources)].cb = "shutdownnow_pressed"]_vars
    /\ [][command(<<"reboot">>, "normal")
            => /\ Len(pp'.sources) = Len(pp.sources) + 1
               /\ pp'.sources[Len(pp'.sources)].cb = "reboot_pressed"]_vars
    /\ [][dispatch_shutdownnow_pressed
            => /\ pp'.shutdown_required
               /\ IF all_shows_exited(pp)
                  THEN ~HasCall(pp', "exit_all_shows") /\ EndExecuted
                  ELSE HasCall(pp', "exit_all_shows") /\ ~EndExecuted]_vars
    /\ [][dispatch_reboot_pressed
            => /\ pp'.reboot_required
               /\ IF all_shows_exited(pp)
                  THEN ~HasCall(pp', "exit_all_shows") /\ EndExecuted
                  ELSE HasCall(pp', "exit_all_shows") /\ ~EndExecuted]_vars

\* C17: whenever end() executes with a reason that is neither error nor killed,
\* every registered show is exited or not-open.
C17_NoShutdownWhileShowsOpen ==
    [][(EndExecuted /\ LastEnd(pp') \notin {"error", "killed"})
        => all_shows_exited(pp')]_vars

\* the entries of the registry that have a live show object
LiveShows(s) == {i \in 1..NShows : s.shows[i].obj}

NthOf(S, k) == CHOOSE i \in S : Cardinality({j \in S : j < i}) = k - 1

\* one call of callee for each entry of S, in the order of the registry
InRegistryOrder(s, S, callee, arg) ==
    [k \in 1..Cardinality(S) |-> <<callee, s.shows[NthOf(S, k)].ref, arg>>]

\* C18: terminate(), from SIGTERM, a user abort or pp-terminate, sets
\* terminate_required, calls terminate() on every registered show that has a
\* live object, in registry order, and calls nothing else, except that it calls
\* end('killed', ...) itself exactly when no show has a live object; the process
\* then exits with the code of a killed run.
C18_Terminate ==
    [][(pp'.terminate_required
          /\ (\/ handle_sigterm
              \/ input_event("pp-terminate")
              \/ command(<<"event", "pp-terminate">>, "normal")))
        => /\ pp'.calls =
                 InRegistryOrder(pp, LiveShows(pp), "terminate", "")
                 \o (IF LiveShows(pp) = {} THEN << <<"end", "killed", "">> >>
                     ELSE << >>)
           /\ EndExecuted <=> (LiveShows(pp) = {})
           /\ EndExecuted => (LastEnd(pp') = "killed" /\ pp'.proc = "exit101")
           /\ ~EndExecuted => Running(pp')]_vars

C18_Witness ==
    /\ pp.terminate_required
    /\ pp.calls = << <<"terminate", "show1", "">>, <<"terminate", "show2", "">> >>
    /\ pp.ended = << >>
    /\ Running(pp)

\* what handle_input_event(symbol, source) does when it is called in the state
\* the run is in
AfterInput(symbol) == handle_input_event(Begin(pp), symbol)

\* C19 as stated: in every state of the run, every symbol other than
\* pp-terminate, pp-shutdownnow, pp-exitpipresents and pp-restartpipresents is
\* delivered by handle_input_event to the input handler of every registered show
\* that has a live object, once each and in registry order, and to no other;
\* those four symbols are delivered to no show.
C19_BroadcastAllButFour ==
    Running(pp) =>
       \A symbol \in Symbols :
          IF symbol \in {"pp-terminate", "pp-shutdownnow", "pp-exitpipresents",
                         "pp-restartpipresents"}
          THEN ~HasCall(AfterInput(symbol), "show.handle_input_event")
          ELSE AfterInput(symbol).calls =
                  InRegistryOrder(pp, LiveShows(pp), "show.handle_input_event", symbol)

\* C19 amended: the reserved symbols are five, pp-shutdown being the fifth: it is
\* delivered to no show and is reported as an error (end('error', ...)).  In
\* every state of the run every other symbol is delivered by handle_input_event
\* to the input handler of every registered show that has a live object, once
\* each and in registry order, and to no other, and nothing else is called.
C19_BroadcastAllButFive ==
    Running(pp) =>
       \A symbol \in Symbols :
          IF symbol \in {"pp-terminate", "pp-shutdown", "pp-shutdownnow",
                         "pp-exitpipresents", "pp-restartpipresents"}
          THEN /\ ~HasCall(AfterInput(symbol), "show.handle_input_event")
               /\ symbol = "pp-shutdown"
                    => AfterInput(symbol).calls = << <<"end", "error", "">> >>
          ELSE AfterInput(symbol).calls =
                  InRegistryOrder(pp, LiveShows(pp), "show.handle_input_event", symbol)

C19_Witness ==
    /\ pp.calls = << <<"show.handle_input_event", "show2", "pp-play">> >>
    /\ ~pp.shows[1].obj
    /\ pp.shows[2].obj
    /\ Running(pp)

\* C20: a command whose first token is not in the vocabulary, and a show verb
\* that names an unknown show (while neither shutdown nor terminate is pending),
\* is reported as an error: end('error', ...) is called, no show is opened or
\* closed, and the run ends with the error exit code.
C20_CommandErrorEndsRun ==
    [][(\/ command(<<"bogus">>, "normal")
        \/ /\ ~pp.shutdown_required
           /\ ~pp.terminate_required
           /\ \E answer \in {"normal", "error"} :
                 command(<<"open", UnknownRef>>, answer))
        => /\ HasCall(pp', "end")
           /\ pp'.ended = Append(pp.ended, "error")
           /\ pp'.shows = pp.shows
           /\ pp'.proc = "exit102"]_vars

\* C21: every end('error', ...) after startup ends the run: in every state in
\* which end() has been executed with the reason error, the process has exited
\* with the code 102 (so no input event and no command is dispatched after it).
C21_ErrorExits102 ==
    \A k \in 1..Len(pp.ended) : pp.ended[k] = "error" => pp.proc = "exit102"

\* what handle_command(command_text, ...) does when it is called in the state the
\* run is in, its collaborator answering normal
AfterCommand(fields) == handle_command(Begin(pp), fields, "normal")

\* C22: in every state of the run, handle_command recognises each of the verbs
\* exitpipresents, shutdownnow, reboot and restartpipresents: none of them is
\* reported as an error, and each sets its pending flag, exitpipresents and
\* restartpipresents in the handler, shutdownnow and reboot in the one-tick
\* callback the handler arms.
C22_LifecycleVerbsRecognised ==
    Running(pp) =>
       /\ \A verb \in {"exitpipresents", "shutdownnow", "reboot", "restartpipresents"} :
             /\ ~HasCall(AfterCommand(<<verb>>), "end")
             /\ AfterCommand(<<verb>>).dialog = pp.dialog
       /\ AfterCommand(<<"exitpipresents">>).exitpipresents_required
       /\ AfterCommand(<<"restartpipresents">>).restartpipresents_required
       /\ CallbackOf(AfterCommand(<<"shutdownnow">>)) = "shutdownnow_pressed"
       /\ shutdownnow_pressed(AfterCommand(<<"shutdownnow">>)).shutdown_required
       /\ CallbackOf(AfterCommand(<<"reboot">>)) = "reboot_pressed"
       /\ reboot_pressed(AfterCommand(<<"reboot">>)).reboot_required

\* C23: in every state of the run and for every symbol X, the reserved ones and
\* the empty one (the command event alone) included, handle_command('event X')
\* leaves the dispatcher, the shows and the one-shot sources exactly as
\* handle_input_event(X, 'Show Control') does, and makes the same calls: what is
\* reported as an error is what handle_input_event reports.
C23_EventCommandIsInputEvent ==
    Running(pp) =>
       /\ \A X \in Symbols \cup {"other"} :
             AfterCommand(<<"event", X>>) = AfterInput(X)
       /\ AfterCommand(<<"event">>) = AfterInput("")

C23_Witness ==
    /\ pp.exitpipresents_required
    /\ pp.calls = << <<"exit_all_shows", "", "">> >>
    /\ pp.shows[1].status = "closing"
    /\ pp.shows[2].status = "closing"
    /\ Running(pp)

\* C24: a pending flag that is true stays true in every later state of the run.
C24_FlagsStaySet ==
    [][/\ pp.shutdown_required => pp'.shutdown_required
       /\ pp.reboot_required => pp'.reboot_required
       /\ pp.terminate_required => pp'.terminate_required
       /\ pp.exitpipresents_required => pp'.exitpipresents_required
       /\ pp.restartpipresents_required => pp'.restartpipresents_required]_vars

\* shutdown was pending when reboot_pressed ran, and both are pending after it
C24_Witness ==
    /\ pp.shutdown_required
    /\ pp.reboot_required
    /\ pp.calls = << <<"exit_all_shows", "", "">> >>
    /\ pp.reboot_pressed_timer = Some(2)
    /\ Running(pp)

\* the pending flags that are true
PendingFlags(s) ==
    {f \in {"shutdown", "reboot", "terminate", "exitpipresents", "restartpipresents"} :
        \/ f = "shutdown" /\ s.shutdown_required
        \/ f = "reboot" /\ s.reboot_required
        \/ f = "terminate" /\ s.terminate_required
        \/ f = "exitpipresents" /\ s.exitpipresents_required
        \/ f = "restartpipresents" /\ s.restartpipresents_required}

\* C25: in every reachable state at most one pending flag is true, and the final
\* shutdown has issued at most one of reboot and system shutdown.
C25_SingleIntent ==
    /\ Cardinality(PendingFlags(pp)) <= 1
    /\ Len(pp.issued) <= 1

\* C26: in every state of the run, an animate line that fails to parse, whether
\* it comes from the show-control command animate or from the OSC server, is
\* reported upward (end('error', ...)) and no output event is passed to the I/O
\* plugin manager for it.
C26_ParseErrorNoOutput ==
    Running(pp) =>
       \A line \in AnimateLines, answer \in {"normal", "error"} :
          parse_animate_fields(<<"0">> \o line)[1] = "error" =>
             /\ HasCall(handle_command(Begin(pp), <<"animate">> \o line, answer), "end")
             /\ ~HasCall(handle_command(Begin(pp), <<"animate">> \o line, answer),
                         "ioplugin_manager.handle_output_event")
             /\ HasCall(osc_handle_animate(Begin(pp), <<"0">> \o line, answer), "end")
             /\ ~HasCall(osc_handle_animate(Begin(pp), <<"0">> \o line, answer),
                         "ioplugin_manager.handle_output_event")

(***************************************************************************)
(* Properties of the driver: the options of a load                         *)
(***************************************************************************)
\* on_renderer_ready has given the options of the load to the player
OptionsApplied == loaded /\ ~realize_pending /\ closed = 0

\* C27: when the player rejects one of the options given to load(), the state
\* the owner reads (get_state) never becomes load-ok or load-frozen.
C27_RejectedOptionSurfaced ==
    (OptionsApplied /\ apply_options(NoPlayer.options, options).status = "error")
       => state \notin {"load-ok", "load-frozen"}

\* the options of the list that the player rejects, by their place in the list
Rejected(opts) == {i \in 1..Len(opts) : ~PlayerTakes(opts[i])}

\* the number of options that are given to the player before the first one it
\* rejects
Accepted(opts) ==
    IF Rejected(opts) = {} THEN Len(opts)
    ELSE (CHOOSE i \in Rejected(opts) : \A j \in Rejected(opts) : i <= j) - 1

\* the value the player holds for name after the first n options of the list
HeldAfter(opts, n, name) ==
    IF \E i \in 1..n : opts[i][1] = name
    THEN Some(opts[CHOOSE i \in 1..n :
                       /\ opts[i][1] = name
                       /\ \A j \in (i + 1)..n : opts[j][1] # name][2])
    ELSE None

\* C28: for every list of options, apply_options returns ('normal', '') exactly
\* when the player takes every option of the list; otherwise it returns 'error'
\* with a message that names the first option the player rejects; in both cases
\* the player holds exactly the options of the list before that one, in list
\* order (a later value for the same name replaces the earlier one), and that is
\* what the player of the driver holds once on_renderer_ready has run.
C28_ApplyOptions ==
    LET r == apply_options(NoPlayer.options, options) IN
       /\ r.status = (IF Rejected(options) = {} THEN "normal" ELSE "error")
       /\ r.status = "normal" => r.message = << >>
       /\ r.status = "error" =>
             /\ r.message[2] = options[Accepted(options) + 1][1]
             /\ r.message[3] = options[Accepted(options) + 1][2]
       /\ \A name \in OptionNames :
             r.held[name] = HeldAfter(options, Accepted(options), name)
       /\ OptionsApplied => player.options = r.held

C28_Witness ==
    /\ options = << <<"loop-file", "inf">>, <<"mute", "maybe">> >>
    /\ OptionsApplied
    /\ player.options["loop-file"] = Some("inf")
    /\ player.options["mute"] = None

(***************************************************************************)
(* Properties of the driver: callbacks and poll ticks                      *)
(***************************************************************************)
\* C29: the callbacks of the player, load_property_change and
\* show_complete_change, change nothing of the driver but the completion flag of
\* their phase and the player (pause, volume, observers): not the state, not
\* the timers, not the quit signals, not the freeze flags; and every step that
\* changes the state is a poll tick or one of load, show, go, stop, unload.
C29_CallbacksOnlySignal ==
    /\ [][load_property_change
            => UNCHANGED <<state, config, flags, quits, load_timeout, duration,
                           show_complete_signal, handles, timers, env>>]_vars
    /\ [][show_complete_change
            => UNCHANGED <<state, config, flags, quits, loadv, handles, timers,
                           env>>]_vars
    /\ [][state' # state
            => \/ LoadTick
               \/ ShowTick
               \/ \E track_options \in OptionLists : load(track_options)
               \/ \E v \in Volumes : show(v)
               \/ Go
               \/ stop
               \/ unload]_vars

\* both callbacks have signalled in this run and the state is still the one the
\* request methods and the poll ticks gave
C29_Witness ==
    /\ state = "show-showing"
    /\ show_complete_signal
    /\ player.show_observers = 0
    /\ player.load_observers = 0
    /\ player.volume = 0
    /\ show_status_timer # None

\* a timeout source of the show poll is armed
ShowPollArmed == \E id \in TimerIds : timers[id] = "show"

\* C30: until close() is called, a show poll is armed, and show_status_timer is
\* its handle, whenever the state is show-showing, and no show poll is armed and
\* show_status_timer is None whenever the state is show-pauseatend or
\* show-niceday; a tick of the show poll arms the next one exactly when it sees
\* neither a quit request nor a completion signal.
C30_ShowPollArmedWhileShowing ==
    /\ [](closed = 0 =>
            /\ state = "show-showing" =>
                  /\ show_status_timer # None
                  /\ timers[Val(show_status_timer)] = "show"
            /\ state \in {"show-pauseatend", "show-niceday"} =>
                  /\ show_status_timer = None
                  /\ ~ShowPollArmed)
    /\ [][(closed = 0 /\ ShowTick)
            => ((show_status_timer' # None)
                  <=> (~quit_show_signal /\ ~show_complete_signal))]_vars

(***************************************************************************)
(* Properties of the driver: the request methods                           *)
(***************************************************************************)
\* C31: a stop request is pending (quit_show_signal) only while the state is
\* show-showing, and a stop() that is called in idle, load-loading,
\* show-pauseatend or show-niceday leaves no request behind for a later showing.
C31_StopOnlyWhileShowing ==
    /\ [](quit_show_signal => state = "show-showing")
    /\ [][(stop /\ state \in {"idle", "load-loading", "show-pauseatend",
                               "show-niceday"})
            => ~quit_show_signal']_vars

\* C32: show(volume) called with freeze_at_start no in state load-ok sets the
\* state to show-showing, clears frozen_at_start, subscribes the completion
\* observer and arms the show poll; called with another freeze_at_start or in
\* any other state it changes nothing.
C32_ShowOnlyFromLoadOk ==
    [][(\E v \in Volumes : show(v))
        => IF freeze_at_start = "no" /\ state = "load-ok"
           THEN /\ state' = "show-showing"
                /\ ~frozen_at_start'
                /\ player'.show_observers = player.show_observers + 1
                /\ show_status_timer' # None
                /\ timers'[Val(show_status_timer')] = "show"
           ELSE UNCHANGED vars]_vars

\* stop() has been called while the driver was frozen at start: the state is
\* show-niceday and no showing has cleared frozen_at_start
StoppedWhileFrozen == state = "show-niceday" /\ frozen_at_start

\* C33: stop() called while the driver is frozen at start stops the player and
\* sets the state to show-niceday in the call itself, whatever freeze_at_end
\* is, and arms no poll; from then on, until close(), go() is rejected and the
\* state stays show-niceday.
C33_StopWhileFrozen ==
    /\ [][(stop /\ frozen_at_start)
            => /\ state' = "show-niceday"
               /\ ~player'.playing
               /\ UNCHANGED <<timers, handles, quit_show_signal>>]_vars
    /\ [](StoppedWhileFrozen /\ closed = 0 => go_returns = "go-reject")
    /\ [][(StoppedWhileFrozen /\ closed = 0) => state' = "show-niceday"]_vars

\* C34: until close() is called, a state of the showing (show-showing,
\* show-pauseatend, show-niceday) is followed by states of the showing only, and
\* the state load-unloaded by load-unloaded only.
C34_UnloadOnlyOnLoad ==
    /\ [][(closed = 0
              /\ state \in {"show-showing", "show-pauseatend", "show-niceday"})
            => state' \in {"show-showing", "show-pauseatend", "show-niceday"}]_vars
    /\ [][(closed = 0 /\ state = "load-unloaded") => state' = "load-unloaded"]_vars

(***************************************************************************)
(* Properties of the dispatcher: shutdown                                  *)
(***************************************************************************)
\* the show commands, with the references of the registered shows and one that
\* is not registered
ShowCommands ==
    {<<"closeall">>}
    \cup {<<verb, ref>> : verb \in ShowVerbs,
                          ref \in {ShowRefs[i] : i \in 1..NShows} \cup {UnknownRef}}

\* C35: in every state of the run in which shutdown_required or
\* terminate_required is true, handle_command returns from every open, close,
\* closeall and openexclusive command, whatever show it names, without calling
\* the ShowManager, without reporting an error and without changing anything.
C35_ShowCommandsBlocked ==
    (Running(pp) /\ (pp.shutdown_required \/ pp.terminate_required)) =>
       \A fields \in ShowCommands, answer \in {"normal", "error"} :
          handle_command(Begin(pp), fields, answer) = Begin(pp)

\* after terminate() and after shutdownnow_pressed, with a show that is still
\* closing, a step has made no call
C35_Witness ==
    /\ pp.terminate_required
    /\ pp.shutdown_required
    /\ pp.shows[1].status = "closing"
    /\ pp.shows[1].obj
    /\ pp.sources = << >>
    /\ pp.calls = << >>
    /\ Running(pp)

\* C36: in every state of the run and for every reason,
\* all_shows_ended_callback(reason, message) calls end(), once and with that
\* reason, exactly when the reason is killed or error or one of
\* shutdown_required, exitpipresents_required, reboot_required and
\* restartpipresents_required is true; otherwise (reason normal and none of the
\* four, terminate_required or not) the application keeps running, end() is not
\* executed and no pending flag changes.
C36_CallbackEndsIff ==
    Running(pp) =>
       \A reason \in Reasons :
          LET after == all_shows_ended_callback(Begin(pp), reason)
              due == \/ reason \in {"killed", "error"}
                     \/ PendingFlags(pp) \ {"terminate"} # {}
          IN  /\ HasCall(after, "end") <=> due
              /\ due => after.ended = Append(pp.ended, reason)
              /\ ~due => /\ Running(after)
                         /\ after.ended = pp.ended
                         /\ PendingFlags(after) = PendingFlags(pp)

\* the last show has ended by itself while nothing was pending
C36_Witness ==
    /\ pp.calls = << <<"all_shows_ended_callback", "normal", "">>,
                     <<"ioplugin_manager.start", "", "">> >>
    /\ pp.ended = << >>
    /\ PendingFlags(pp) = {}
    /\ all_shows_exited(pp)
    /\ Running(pp)

(***************************************************************************)
(* Properties of the dispatcher: the start shows                           *)
(***************************************************************************)
\* no call of callee comes after a call of marker in the calls of s
NoneAfter(s, marker, callee) ==
    \A j, k \in 1..Len(s.calls) :
       (j < k /\ s.calls[j][1] = marker) => s.calls[k][1] # callee

\* C37: when run_start_shows has run, a start show whose opening returned an
\* error has set terminate_required, and control_a_show has not been called
\* again after terminate() was called.
C37_NoStartShowAfterTerminate ==
    [][(\E show_refs \in StartShowLists :
          \E answers \in [1..Len(show_refs) -> {"normal", "error"}] :
             start_shows(show_refs, answers))
        => /\ HasCall(pp', "self.terminate") => pp'.terminate_required
           /\ NoneAfter(pp', "self.terminate", "control_a_show")]_vars

(***************************************************************************)
(* Properties of the dispatcher: the lines of the OSC server               *)
(***************************************************************************)
\* the animate lines that wait for their one-tick callback, in arrival order
RECURSIVE LinesOf(_)
LinesOf(q) ==
    IF q = << >> THEN << >>
    ELSE IF Head(q).cb = "osc_handle_animate"
    THEN <<Head(q).arg>> \o LinesOf(Tail(q))
    ELSE LinesOf(Tail(q))

\* C38: a line handed to e_osc_handle_animate joins the lines that wait, behind
\* those that came before it; a run of osc_handle_animate takes the line that
\* has waited longest and leaves the others waiting; and no other step changes
\* the lines that wait.  So every line is processed once, in arrival order.
C38_EveryOscLineOnce ==
    /\ [][\A line \in AnimateLines :
             osc_animate(<<"0">> \o line)
                => LinesOf(pp'.sources) = Append(LinesOf(pp.sources), <<"0">> \o line)]_vars
    /\ [][(\E answer \in {"normal", "error"} : dispatch_osc_handle_animate(answer))
            => /\ HasCall(pp', "osc_handle_animate")
               /\ LinesOf(pp'.sources) = Tail(LinesOf(pp.sources))]_vars
    /\ [][LinesOf(pp'.sources) # LinesOf(pp.sources)
            => \/ \E line \in AnimateLines : osc_animate(<<"0">> \o line)
               \/ \E answer \in {"normal", "error"} :
                     dispatch_osc_handle_animate(answer)]_vars

(***************************************************************************)
(* Properties of the dispatcher: the normal end                            *)
(***************************************************************************)
\* C39: in every state of the run, end('normal', ...) with
\* restartpipresents_required true quits the main loop and returns: neither
\* reboot nor shutdown is issued and the process does not exit with code 100;
\* with restartpipresents_required false it issues reboot exactly when
\* reboot_required is true, then shutdown exactly when shutdown_required is
\* true, and the process exits with code 100.
C39_RestartFirst ==
    Running(pp) =>
       LET after == end(Begin(pp), "normal") IN
          /\ after.ended = Append(pp.ended, "normal")
          /\ IF pp.restartpipresents_required
             THEN after.proc = "restart" /\ after.issued = << >>
             ELSE /\ after.proc = "exit100"
                  /\ after.issued =
                        (IF pp.reboot_required THEN <<"reboot">> ELSE << >>)
                        \o (IF pp.shutdown_required THEN <<"shutdown">> ELSE << >>)

\* the application restarts although a reboot was pending as well
C39_Witness ==
    /\ pp.proc = "restart"
    /\ pp.restartpipresents_required
    /\ pp.reboot_required
    /\ pp.issued = << >>
    /\ LastEnd(pp) = "normal"

====
